---- MODULE Spec2Model ----
(***************************************************************************)
(* Colonia repo-scan consumer: the scan job handler (callback), the        *)
(* manifest fetch (fetch_colonia_yaml) and the manifest reconciliation     *)
(* (process_colonia_yaml) of src/consumers/repo-scan.py and                *)
(* src/repo-scan.py, over the tables environments, stacks and              *)
(* stack_environments.                                                     *)
(*                                                                         *)
(* The committed tables are envs, stacks and links.  A job works on        *)
(* sess[c], the tables as the statements of its own transaction see them   *)
(* (sqlmodel sessions autoflush before every statement); get_session       *)
(* copies sess[c] to the committed tables on commit and drops it on        *)
(* rollback.  Every statement of process_colonia_yaml is one step.         *)
(*                                                                         *)
(* The HTTP side: create_project_handler and trigger_repo_scan_handler of  *)
(* src/app/api.py with send_project_scan_message of src/app/rabbitmq.py,   *)
(* over the table projects and the queue repo-scan.                        *)
(***************************************************************************)
EXTENDS Integers, Sequences, FiniteSets, TLC

VARIABLES
    envs,       \* committed rows of table environments
    stacks,     \* committed rows of table stacks
    links,      \* committed rows of table stack_environments
    env_seq,    \* last id handed out for environments.id
    stack_seq,  \* last id handed out for stacks.id
    pc,         \* pc[c]: where consumer c is in callback / process_colonia_yaml
    msg,        \* msg[c]: the delivery consumer c is handling
    cfg,        \* cfg[c]: colonia_config, what fetch_colonia_yaml returned
    sess,       \* sess[c]: the tables as seen inside c's transaction
    loc,        \* loc[c]: the local variables of process_colonia_yaml
    outcome,    \* outcome[c]: how the current / last delivery was settled
    raised,     \* raised[c]: the exception the current / last job raised
    probes,     \* probes[c]: the branches fetch_colonia_yaml has requested
    fetched,    \* fetched[c]: how fetch_colonia_yaml came to its result
    redelivered,\* redelivered[c]: the delivery is a redelivery
    jobs,       \* number of messages delivered so far
    projects,   \* committed rows of table projects
    project_seq,\* last id handed out for projects.id
    queue,      \* the messages published to the queue repo-scan
    api         \* the HTTP request being handled, and its handler's locals

tabVars == <<envs, stacks, links>>
dbVars  == <<envs, stacks, links, env_seq, stack_seq>>
msgVars == <<msg, cfg, probes, fetched, redelivered>>
endVars == <<outcome, raised>>
jobVars == <<envs, stacks, links, env_seq, stack_seq, pc, msg, cfg, sess, loc,
             outcome, raised, probes, fetched, redelivered, jobs>>
apiVars == <<projects, project_seq, queue, api>>
vars    == <<envs, stacks, links, env_seq, stack_seq, pc, msg, cfg, sess, loc,
             outcome, raised, probes, fetched, redelivered, jobs,
             projects, project_seq, queue, api>>

----------------------------------------------------------------------------
(* Bounds of the model. *)

MaxJobs         == 2
MaxEnvEntries   == 2
MaxStackEntries == 1
MaxStackEnvs    == 2
MaxRequests     == 3
MaxProjects     == 2

ProjectIds == {1, 2}
EnvNames   == {"dev", "stg"}
Dirs       == {"d1", "d2"}
StackNames == {"VPC"}
Paths      == {"p1", "p2"}

\* A missing key, None or the empty string: all fail Python's truth test.
NoVal == ""

SeqsUpTo(S, n) == UNION {[1..k -> S] : k \in 0..n}

----------------------------------------------------------------------------
(* The two consumer entry points. *)

Consumers == {"consumers/repo-scan.py", "repo-scan.py"}

----------------------------------------------------------------------------
(* Rows. *)

\* Environment(project_id=..., name=..., directory=...): the column
\* backend_storage_id takes its default, None.
EnvRow(id, pid, name, dir) ==
    [id |-> id, project_id |-> pid, name |-> name, directory |-> dir,
     backend_storage_id |-> 0]

\* Stack(project_id=..., name=..., stack_path=...): the columns stack_id and
\* depends_on take their default, None.
StackRow(id, pid, name, path) ==
    [id |-> id, project_id |-> pid, name |-> name, stack_path |-> path,
     stack_id |-> NoVal, depends_on |-> NoVal]

StackEnvironment(sid, eid) == [stack_id |-> sid, environment_id |-> eid]

Tables(e, s, l) == [envs |-> e, stacks |-> s, links |-> l]

NoTables == Tables({}, {}, {})

Committed == Tables(envs, stacks, links)

ProjEnvs(v, pid)   == {e \in v.envs : e.project_id = pid}
ProjStacks(v, pid) == {s \in v.stacks : s.project_id = pid}

----------------------------------------------------------------------------
(* Messages, repository URLs and manifest documents. *)

\* One URL of each class fetch_colonia_yaml tells apart.
Urls == {NoVal, "https://github.com/o/r", "https://gitlab.com/o/r"}

IsGitHubUrl(url) == url \in {"https://github.com/o/r"}

Branches == <<"main", "master">>

\* json.loads(body): ok is FALSE for a body that is not JSON.
Messages ==
    [ok : {TRUE}, project_id : ProjectIds, repository_url : Urls]
        \cup {[ok |-> FALSE, project_id |-> 0, repository_url |-> NoVal]}

\* The entries of a manifest's lists: the valid ones, and one with each
\* required key missing.
EnvEntries ==
    [name : EnvNames, dir : Dirs]
        \cup {[name |-> NoVal, dir |-> "d1"], [name |-> "dev", dir |-> NoVal]}

StackEntries ==
    [name : StackNames, stack : Paths,
     environments : SeqsUpTo(EnvNames, MaxStackEnvs)]
        \cup {[name |-> NoVal, stack |-> "p1", environments |-> <<"dev">>],
               [name |-> "VPC", stack |-> NoVal, environments |-> <<"dev">>]}

\* What yaml.safe_load can return: a mapping (with its two lists, [] when the
\* key is absent), a value that fails the truth test (None, {}, ...), or a
\* true value that is no mapping (a string, a list).
Doc(kind, es, ss) == [kind |-> kind, environments |-> es, stacks |-> ss]

NoneDoc == Doc("none", <<>>, <<>>)

Manifests ==
    {Doc("dict", es, ss) :
        es \in SeqsUpTo(EnvEntries, MaxEnvEntries),
        ss \in SeqsUpTo(StackEntries, MaxStackEntries)}

Docs == Manifests \cup {NoneDoc, Doc("scalar", <<>>, <<>>)}

\* The manifests the first scan of a run may find: two environments and a
\* stack in both; one environment name listed twice; one stack name listed
\* twice; one environment and no stack; one environment, one stack, one link.
EnvEntry(name, dir) == [name |-> name, dir |-> dir]

StackEntry(name, path, names) ==
    [name |-> name, stack |-> path, environments |-> names]

FirstManifests ==
    {Doc("dict", <<EnvEntry("dev", "d1"), EnvEntry("stg", "d1")>>,
                 <<StackEntry("VPC", "p1", <<"dev", "stg">>)>>),
     Doc("dict", <<EnvEntry("dev", "d1"), EnvEntry("dev", "d2")>>,
                 <<StackEntry("VPC", "p1", <<"dev">>)>>),
     Doc("dict", <<EnvEntry("dev", "d1")>>,
                 <<StackEntry("VPC", "p1", <<"dev">>),
                   StackEntry("VPC", "p2", <<>>)>>),
     Doc("dict", <<EnvEntry("stg", "d2")>>, <<>>),
     Doc("dict", <<EnvEntry("dev", "d1")>>,
                 <<StackEntry("VPC", "p1", <<"dev">>)>>)}

\* The documents the n-th delivery of a run may fetch.
Fetchable(n) == IF n = 1 THEN FirstManifests ELSE Docs

\* A test that sends every document to the sync branch.
AlwaysTruthy(doc) == TRUE

\* `if not colonia_config`
Truthy(doc) == doc.kind # "none"

NoMsg == [ok |-> FALSE, project_id |-> 0, repository_url |-> NoVal]

----------------------------------------------------------------------------
(* Python dicts built from loaded rows: {row.name: row for row in rows}.   *)
(* A later row of the same name replaces the value and keeps the key's     *)
(* place.                                                                  *)

HasKey(rows, name) == \E i \in 1..Len(rows) : rows[i].name = name

DictGet(rows, name) ==
    rows[CHOOSE i \in 1..Len(rows) :
            /\ rows[i].name = name
            /\ \A j \in (i + 1)..Len(rows) : rows[j].name # name]

RECURSIVE DictKeys(_)
DictKeys(rows) ==
    IF rows = <<>> THEN <<>>
    ELSE LET front == DictKeys(SubSeq(rows, 1, Len(rows) - 1))
             name  == rows[Len(rows)].name
         IN  IF \E i \in 1..Len(front) : front[i] = name
             THEN front
             ELSE Append(front, name)

\* select(...).all() names no ORDER BY: the rows come in any order.
LoadOrders(rows) ==
    {f \in [1..Cardinality(rows) -> rows] :
        \A i, j \in 1..Cardinality(rows) : i # j => f[i] # f[j]}

\* {env.name: env.id for env in all_envs}, as the set of its items.
NameToId(rows) ==
    {[name |-> rows[i].name, id |-> DictGet(rows, rows[i].name).id] :
        i \in 1..Len(rows)}

InMap(map, name) == \E m \in map : m.name = name

MapGet(map, name) == (CHOOSE m \in map : m.name = name).id

\* A deletion loop that finds nothing to delete.
DroppedNone(rows, keys, wanted) == <<>>

\* for name, row in existing_map.items(): if name not in config_names
RECURSIVE Dropped(_, _, _)
Dropped(rows, keys, wanted) ==
    IF keys = <<>> THEN <<>>
    ELSE LET rest == Dropped(rows, Tail(keys), wanted)
         IN  IF Head(keys) \in wanted
             THEN rest
             ELSE <<DictGet(rows, Head(keys)).id>> \o rest

----------------------------------------------------------------------------
(* The statements of process_colonia_yaml, on the tables v of a session.   *)

\* A teardown without its first statement.
KeepLinksOfProjectStacks(v, pid) == v

\* delete(StackEnvironment).where(stack_id.in_(select(Stack.id).where(...)))
DeleteLinksOfProjectStacks(v, pid) ==
    [v EXCEPT !.links =
        {l \in @ : l.stack_id \notin {s.id : s \in ProjStacks(v, pid)}}]

\* delete(Stack).where(Stack.project_id == project_id)
DeleteProjectStacks(v, pid) ==
    [v EXCEPT !.stacks = {s \in @ : s.project_id # pid}]

\* A delete of environments without its where clause.
DeleteEveryEnv(v, pid) == [v EXCEPT !.envs = {}]

\* delete(Environment).where(Environment.project_id == project_id)
DeleteProjectEnvs(v, pid) ==
    [v EXCEPT !.envs = {e \in @ : e.project_id # pid}]

\* env.directory = env_dir; session.add(env)
SetDirectory(v, id, dir) ==
    [v EXCEPT !.envs =
        {IF e.id = id THEN [e EXCEPT !.directory = dir] ELSE e : e \in @}]

\* session.flush() of the new Environment objects, in the order added: each
\* takes the next id of the sequence.
InsertEnvs(v, pid, pending, seq) ==
    [v EXCEPT !.envs = @ \cup
        {EnvRow(seq + i, pid, pending[i].name, pending[i].directory) :
            i \in 1..Len(pending)}]

\* An environment deleted with its links left behind.
KeepLinksOfEnv(v, eid) == v

\* delete(StackEnvironment).where(StackEnvironment.environment_id == env.id)
DeleteLinksOfEnv(v, eid) ==
    [v EXCEPT !.links = {l \in @ : l.environment_id # eid}]

\* session.delete(env)
DeleteEnv(v, eid) == [v EXCEPT !.envs = {e \in @ : e.id # eid}]

\* An update that writes a new Stack object over the row.
ReplaceStack(v, id, path) ==
    [v EXCEPT !.stacks =
        {IF s.id = id THEN StackRow(s.id, s.project_id, s.name, path) ELSE s :
            s \in @}]

\* stack.stack_path = stack_path; session.add(stack)
SetStackPath(v, id, path) ==
    [v EXCEPT !.stacks =
        {IF s.id = id THEN [s EXCEPT !.stack_path = path] ELSE s : s \in @}]

\* session.add(Stack(...)); session.flush(); session.refresh(stack)
InsertStack(v, id, pid, name, path) ==
    [v EXCEPT !.stacks = @ \cup {StackRow(id, pid, name, path)}]

\* A stack deleted with its links left behind.
KeepLinksOfStack(v, sid) == v

\* delete(StackEnvironment).where(StackEnvironment.stack_id == stack.id)
DeleteLinksOfStack(v, sid) ==
    [v EXCEPT !.links = {l \in @ : l.stack_id # sid}]

\* session.delete(stack)
DeleteStack(v, sid) == [v EXCEPT !.stacks = {s \in @ : s.id # sid}]

\* A loop over stack_envs that stops after the first name.
NewLinksFirstOnly(sid, names, map) ==
    IF names = <<>> \/ ~InMap(map, Head(names)) THEN <<>>
    ELSE <<StackEnvironment(sid, MapGet(map, Head(names)))>>

\* for env_name in stack_envs: if env_name in env_name_to_id: session.add(...)
RECURSIVE NewLinks(_, _, _)
NewLinks(sid, names, map) ==
    IF names = <<>> THEN <<>>
    ELSE LET rest == NewLinks(sid, Tail(names), map)
         IN  IF InMap(map, Head(names))
             THEN <<StackEnvironment(sid, MapGet(map, Head(names)))>> \o rest
             ELSE rest

\* The flush of the StackEnvironment objects added since the last one: two
\* of them with one primary key (stack_id, environment_id) raise an
\* IntegrityError.
FlushOk(pending) ==
    \A i, j \in 1..Len(pending) : i # j => pending[i] # pending[j]

FlushLinks(v, pending) ==
    [v EXCEPT !.links = @ \cup {pending[i] : i \in 1..Len(pending)}]

----------------------------------------------------------------------------
(* get_session: the session's tables become the committed ones when the    *)
(* block ends normally, and are dropped when it raises.                    *)

\* A session that commits whatever ends the block.
SessionExitCommits(db, v, ok) == v

SessionExit(db, v, ok) == IF ok THEN v ELSE db

\* What the commit of a session makes of a table with a key id: base are the
\* rows the session began with, v the rows it ends with, db the committed
\* rows.  The rows the session deleted go, the rows it inserted or changed
\* are written, every other committed row stays.
MergeRows(db, base, v) ==
    LET deleted == {r.id : r \in base} \ {r.id : r \in v}
        written == v \ base
    IN  {r \in db : r.id \notin deleted /\ r.id \notin {w.id : w \in written}}
            \cup written

Merge(db, base, v) ==
    [envs   |-> MergeRows(db.envs, base.envs, v.envs),
     stacks |-> MergeRows(db.stacks, base.stacks, v.stacks),
     links  |-> (db.links \ (base.links \ v.links))
                    \cup (v.links \ base.links)]

\* An UPDATE of the session finds its row gone (StaleDataError), or an
\* INSERT of a StackEnvironment finds its primary key taken (IntegrityError).
CommitRefused(db, base, v) ==
    \/ \E w \in (v.envs \ base.envs) :
          w.id \in {r.id : r \in base.envs} /\ w.id \notin {r.id : r \in db.envs}
    \/ \E w \in (v.stacks \ base.stacks) :
          /\ w.id \in {r.id : r \in base.stacks}
          /\ w.id \notin {r.id : r \in db.stacks}
    \/ \E l \in (v.links \ base.links) : l \in db.links

LocInit ==
    [existing_envs      |-> <<>>,
     config_env_names   |-> {},
     pending_envs       |-> <<>>,
     env_name_to_id     |-> {},
     existing_stacks    |-> <<>>,
     config_stack_names |-> {},
     stack              |-> 0,
     pending_links      |-> <<>>,
     i                  |-> 0,
     todo               |-> <<>>,
     base               |-> NoTables]   \* the tables the session began with

\* No row of projects: what session.get(Project, pid) returns is None.
NoProject == [id |-> 0, repository_url |-> NoVal]

\* The handler's locals before a request: no handler runs, nothing is sent.
ApiIdle ==
    [pc        |-> "idle",      \* where the handler is
     handler   |-> "none",      \* which handler runs
     arg       |-> [int |-> FALSE, id |-> 0],  \* the project_id of the path
     project   |-> NoProject,   \* the Project object of the session
     created   |-> FALSE,       \* the session holds a new Project row
     conn      |-> "none",      \* the connection of send_project_scan_message
     failed_at |-> "none",      \* the call of it that raised
     published |-> 0,           \* messages this request has published
     success   |-> FALSE,       \* what send_project_scan_message returned
     response  |-> 0,           \* status of the Response object built
     status    |-> 0,           \* status of the response returned
     raised    |-> "none",      \* the exception the handler's session raised
     n         |-> 0]           \* requests so far

\* No request, no delivery, no project.
Fresh ==
    /\ projects = {}
    /\ project_seq = 0
    /\ queue = <<>>
    /\ api = ApiIdle
    /\ pc = [c \in Consumers |-> "idle"]
    /\ msg = [c \in Consumers |-> NoMsg]
    /\ cfg = [c \in Consumers |-> NoneDoc]
    /\ sess = [c \in Consumers |-> NoTables]
    /\ loc = [c \in Consumers |-> LocInit]
    /\ outcome = [c \in Consumers |-> "none"]
    /\ raised = [c \in Consumers |-> "none"]
    /\ probes = [c \in Consumers |-> <<>>]
    /\ fetched = [c \in Consumers |-> "none"]
    /\ redelivered = [c \in Consumers |-> FALSE]
    /\ jobs = 0

Init ==
    /\ Fresh
    /\ envs = {}
    /\ stacks = {}
    /\ links = {}
    /\ env_seq = 0
    /\ stack_seq = 0

\* A database whose Environment and Stack rows carry the columns the sync
\* does not name: backend_storage_id, stack_id, depends_on.
InitAnnotated ==
    /\ Fresh
    /\ envs = {[EnvRow(1, 1, "dev", "d1") EXCEPT !.backend_storage_id = 1]}
    /\ stacks = {[StackRow(1, 1, "VPC", "p1") EXCEPT
                    !.stack_id = "vpc", !.depends_on = "other-stack"]}
    /\ links = {StackEnvironment(1, 1)}
    /\ env_seq = 1
    /\ stack_seq = 1

Goto(c, label) == pc' = [pc EXCEPT ![c] = label]

SetSess(c, v) == sess' = [sess EXCEPT ![c] = v]

SetTables(v) == envs' = v.envs /\ stacks' = v.stacks /\ links' = v.links

\* An exception leaves the `with get_session()` block: rollback, close, and
\* the exception reaches callback's except clauses.
Raise(c, exc) ==
    /\ SetTables(SessionExit(Committed, sess[c], FALSE))
    /\ SetSess(c, NoTables)
    /\ loc' = [loc EXCEPT ![c] = LocInit]
    /\ raised' = [raised EXCEPT ![c] = exc]
    /\ Goto(c, "except")

----------------------------------------------------------------------------
(* callback and fetch_colonia_yaml. *)

\* channel.basic_qos(prefetch_count=1)
PrefetchCount == 1

\* A broker that does not count what the consumer holds.
NoneUnacked(c) == 0

\* The deliveries consumer c holds and has not settled.
Unacked(c) == IF pc[c] = "idle" THEN 0 ELSE 1

\* The broker hands consumer c one message, the consumer holding fewer
\* than the prefetch count: callback is called.
Take(c, msgs) ==
    /\ Unacked(c) < PrefetchCount
    /\ jobs < MaxJobs
    /\ \E m \in msgs : msg' = [msg EXCEPT ![c] = m]
    /\ outcome' = [outcome EXCEPT ![c] = "none"]
    /\ raised' = [raised EXCEPT ![c] = "none"]
    /\ jobs' = jobs + 1
    /\ Goto(c, "parse")
    /\ UNCHANGED <<dbVars, cfg, probes, fetched, redelivered, sess, loc>>

Deliver(c) == Take(c, Messages) /\ UNCHANGED apiVars

\* message = json.loads(body)
Parse(c) ==
    /\ pc[c] = "parse"
    /\ IF msg[c].ok
       THEN Goto(c, "fetch") /\ UNCHANGED raised
       ELSE Goto(c, "except")
            /\ raised' = [raised EXCEPT ![c] = "JSONDecodeError"]
    /\ UNCHANGED <<dbVars, msgVars, sess, loc, outcome, jobs>>
    /\ UNCHANGED apiVars

\* A fetch that lets a RequestException reach its caller.
ReturnOrRaise(c, doc, why) ==
    /\ cfg' = [cfg EXCEPT ![c] = doc]
    /\ fetched' = [fetched EXCEPT ![c] = why]
    /\ Goto(c, IF why = "request_error" THEN "except" ELSE "process")

\* A fetch that takes an error on the first branch as a miss and goes on
\* to the next branch.
ReturnOrRetry(c, doc, why) ==
    /\ cfg' = [cfg EXCEPT ![c] = doc]
    /\ fetched' = [fetched EXCEPT ![c] = why]
    /\ Goto(c, IF why \in {"request_error", "yaml_error"} /\ probes[c] = <<>>
               THEN "probe" ELSE "process")

\* What fetch_colonia_yaml returns, and why.
Return(c, doc, why) ==
    /\ cfg' = [cfg EXCEPT ![c] = doc]
    /\ fetched' = [fetched EXCEPT ![c] = why]
    /\ Goto(c, "process")

\* fetch_colonia_yaml up to the loop over the branches
Fetch(c) ==
    /\ pc[c] = "fetch"
    /\ IF msg[c].repository_url = NoVal
       THEN Return(c, NoneDoc, "no_url")
       ELSE IF ~IsGitHubUrl(msg[c].repository_url)
       THEN Return(c, NoneDoc, "unsupported_url")
       ELSE Goto(c, "probe") /\ UNCHANGED <<cfg, fetched>>
    /\ UNCHANGED <<dbVars, msg, probes, redelivered, sess, loc, endVars, jobs>>
    /\ UNCHANGED apiVars

\* requests.get(raw_url) for the next branch, and what becomes of the reply
Request(c, docs) ==
    /\ pc[c] = "probe"
    /\ probes' = [probes EXCEPT ![c] = Append(@, Branches[Len(@) + 1])]
    /\ \/ \E doc \in docs : Return(c, doc, "parsed")  \* 200, YAML parsed
       \/ Return(c, NoneDoc, "yaml_error")              \* 200, YAMLError
       \/ Return(c, NoneDoc, "request_error")           \* RequestException
       \/ IF Len(probes[c]) + 1 < Len(Branches)         \* another status
          THEN Goto(c, "probe") /\ UNCHANGED <<cfg, fetched>>
          ELSE Return(c, NoneDoc, "not_found")
    /\ UNCHANGED <<dbVars, msg, redelivered, sess, loc, endVars, jobs>>
    /\ UNCHANGED apiVars

Probe(c) == Request(c, Fetchable(jobs))

\* The delivery is settled: callback returns.
Settle(c, how) ==
    /\ outcome' = [outcome EXCEPT ![c] = how]
    /\ msg' = [msg EXCEPT ![c] = NoMsg]
    /\ cfg' = [cfg EXCEPT ![c] = NoneDoc]
    /\ probes' = [probes EXCEPT ![c] = <<>>]
    /\ fetched' = [fetched EXCEPT ![c] = "none"]
    /\ redelivered' = [redelivered EXCEPT ![c] = FALSE]
    /\ Goto(c, "idle")

\* ch.basic_ack after process_colonia_yaml returned
Ack(c) ==
    /\ pc[c] = "ack"
    /\ Settle(c, "ack")
    /\ UNCHANGED <<dbVars, sess, loc, raised, jobs>>
    /\ UNCHANGED apiVars

\* Except clauses that reject with requeue.
ExceptOutcomeRequeue(c) == "nack_requeue"

\* Except clauses that acknowledge.
ExceptOutcomeAck(c) == "ack"

\* The except clauses: consumers/repo-scan.py rejects without requeue,
\* repo-scan.py acknowledges.
ExceptOutcome(c) ==
    IF c = "consumers/repo-scan.py" THEN "nack_no_requeue" ELSE "ack"

\* ch.basic_nack(delivery_tag=..., requeue=False): the broker drops the
\* message; a requeue would put it back at the head of the queue.
Except(c) ==
    /\ pc[c] = "except"
    /\ Settle(c, ExceptOutcome(c))
    /\ queue' = IF ExceptOutcome(c) = "nack_requeue"
                THEN <<msg[c]>> \o queue
                ELSE queue
    /\ UNCHANGED <<dbVars, sess, loc, raised, jobs>>
    /\ UNCHANGED <<projects, project_seq, api>>

\* The acknowledgement does not reach the broker (the connection drops after
\* the commit): the message is delivered again, and the repository, which
\* has not changed, yields the same document.
Redeliver(c) ==
    /\ pc[c] = "ack"
    /\ ~redelivered[c]
    /\ redelivered' = [redelivered EXCEPT ![c] = TRUE]
    /\ Goto(c, "process")
    /\ UNCHANGED <<dbVars, msg, cfg, probes, fetched, sess, loc, endVars, jobs>>
    /\ UNCHANGED apiVars

----------------------------------------------------------------------------
(* process_colonia_yaml, one step per statement. *)

Pid(c) == msg[c].project_id

\* A session that reads what the sessions of the other consumers have not
\* committed.
DirtySnapshot(c) ==
    [envs   |-> envs \cup UNION {sess[d].envs : d \in Consumers \ {c}},
     stacks |-> stacks \cup UNION {sess[d].stacks : d \in Consumers \ {c}},
     links  |-> links \cup UNION {sess[d].links : d \in Consumers \ {c}}]

\* Session(engine): the session reads the committed rows.
Snapshot(c) == Committed

\* with get_session() as session: if not colonia_config
Begin(c) ==
    /\ pc[c] = "process"
    /\ SetSess(c, Snapshot(c))
    /\ loc' = [loc EXCEPT ![c].base = Snapshot(c)]
    /\ probes' = [probes EXCEPT ![c] = <<>>]
    /\ IF Truthy(cfg[c]) THEN Goto(c, "load_envs") ELSE Goto(c, "clean_links")
    /\ UNCHANGED <<dbVars, msg, cfg, fetched, redelivered, endVars, jobs>>
    /\ UNCHANGED apiVars

CleanLinks(c) ==
    /\ pc[c] = "clean_links"
    /\ SetSess(c, DeleteLinksOfProjectStacks(sess[c], Pid(c)))
    /\ Goto(c, "clean_stacks")
    /\ UNCHANGED <<dbVars, msgVars, loc, endVars, jobs>>
    /\ UNCHANGED apiVars

CleanStacks(c) ==
    /\ pc[c] = "clean_stacks"
    /\ SetSess(c, DeleteProjectStacks(sess[c], Pid(c)))
    /\ Goto(c, "clean_envs")
    /\ UNCHANGED <<dbVars, msgVars, loc, endVars, jobs>>
    /\ UNCHANGED apiVars

CleanEnvs(c) ==
    /\ pc[c] = "clean_envs"
    /\ SetSess(c, DeleteProjectEnvs(sess[c], Pid(c)))
    /\ Goto(c, "commit")
    /\ UNCHANGED <<dbVars, msgVars, loc, endVars, jobs>>
    /\ UNCHANGED apiVars

\* colonia_config.get('environments', []); existing_envs = select(...).all()
LoadEnvs(c) ==
    /\ pc[c] = "load_envs"
    /\ IF cfg[c].kind # "dict"
       THEN Raise(c, "AttributeError")
       ELSE /\ \E order \in LoadOrders(ProjEnvs(sess[c], Pid(c))) :
                 loc' = [loc EXCEPT ![c].existing_envs = order, ![c].i = 1]
            /\ IF cfg[c].environments = <<>>
               THEN Goto(c, "flush_envs")
               ELSE Goto(c, "env_entry")
            /\ UNCHANGED <<tabVars, sess, raised>>
    /\ UNCHANGED <<env_seq, stack_seq, msgVars, outcome, jobs>>
    /\ UNCHANGED apiVars

\* A test that lets an entry without dir through.
NamedEnvEntry(e) == e.name # NoVal

\* `if not env_name or not env_dir: continue`
ValidEnvEntry(e) == e.name # NoVal /\ e.dir # NoVal

\* for env_config in environments_config: one pass of the loop body
SyncEnv(c) ==
    /\ pc[c] = "env_entry"
    /\ LET l == loc[c]
           e == cfg[c].environments[l.i]
           n == [l EXCEPT !.i = @ + 1]
       IN  IF ~ValidEnvEntry(e)
           THEN loc' = [loc EXCEPT ![c] = n] /\ UNCHANGED sess
           ELSE IF HasKey(l.existing_envs, e.name)
           THEN /\ SetSess(c, SetDirectory(sess[c],
                        DictGet(l.existing_envs, e.name).id, e.dir))
                /\ loc' = [loc EXCEPT ![c] =
                        [n EXCEPT !.config_env_names = @ \cup {e.name}]]
           ELSE /\ loc' = [loc EXCEPT ![c] =
                        [n EXCEPT !.config_env_names = @ \cup {e.name},
                                  !.pending_envs = Append(@,
                                      [name |-> e.name, directory |-> e.dir])]]
                /\ UNCHANGED sess
    /\ IF loc[c].i = Len(cfg[c].environments)
       THEN Goto(c, "flush_envs")
       ELSE Goto(c, "env_entry")
    /\ UNCHANGED <<dbVars, msgVars, endVars, jobs>>
    /\ UNCHANGED apiVars

\* session.flush(), and the head of the loop over existing_envs_map.items()
FlushEnvs(c) ==
    /\ pc[c] = "flush_envs"
    /\ LET l    == loc[c]
           todo == Dropped(l.existing_envs, DictKeys(l.existing_envs),
                           l.config_env_names)
       IN  /\ SetSess(c, InsertEnvs(sess[c], Pid(c), l.pending_envs, env_seq))
           /\ env_seq' = env_seq + Len(l.pending_envs)
           /\ loc' = [loc EXCEPT ![c].pending_envs = <<>>, ![c].todo = todo]
           /\ IF todo = <<>>
              THEN Goto(c, "reload_envs")
              ELSE Goto(c, "drop_env_links")
    /\ UNCHANGED <<tabVars, stack_seq, msgVars, endVars, jobs>>
    /\ UNCHANGED apiVars

DropEnvLinks(c) ==
    /\ pc[c] = "drop_env_links"
    /\ SetSess(c, DeleteLinksOfEnv(sess[c], Head(loc[c].todo)))
    /\ Goto(c, "drop_env")
    /\ UNCHANGED <<dbVars, msgVars, loc, endVars, jobs>>
    /\ UNCHANGED apiVars

DropEnv(c) ==
    /\ pc[c] = "drop_env"
    /\ SetSess(c, DeleteEnv(sess[c], Head(loc[c].todo)))
    /\ loc' = [loc EXCEPT ![c].todo = Tail(@)]
    /\ IF Tail(loc[c].todo) = <<>>
       THEN Goto(c, "reload_envs")
       ELSE Goto(c, "drop_env_links")
    /\ UNCHANGED <<dbVars, msgVars, endVars, jobs>>
    /\ UNCHANGED apiVars

\* The rows the select of all_envs would find had it been the list loaded
\* before the environment phase.
StaleEnvs(c) ==
    {loc[c].existing_envs[i] : i \in DOMAIN loc[c].existing_envs}

\* select(Environment).where(Environment.project_id == project_id), after
\* the autoflush of the pending deletes
AllEnvs(c) == ProjEnvs(sess[c], Pid(c))

\* all_envs = select(...).all(); env_name_to_id = {...}
ReloadEnvs(c) ==
    /\ pc[c] = "reload_envs"
    /\ \E order \in LoadOrders(AllEnvs(c)) :
          loc' = [loc EXCEPT ![c].env_name_to_id = NameToId(order)]
    /\ Goto(c, "load_stacks")
    /\ UNCHANGED <<dbVars, msgVars, sess, endVars, jobs>>
    /\ UNCHANGED apiVars

\* colonia_config.get('stacks', []); existing_stacks = select(...).all()
LoadStacks(c) ==
    /\ pc[c] = "load_stacks"
    /\ \E order \in LoadOrders(ProjStacks(sess[c], Pid(c))) :
          loc' = [loc EXCEPT ![c].existing_stacks = order, ![c].i = 1]
    /\ IF cfg[c].stacks = <<>>
       THEN Goto(c, "drop_stacks")
       ELSE Goto(c, "stack_entry")
    /\ UNCHANGED <<dbVars, msgVars, sess, endVars, jobs>>
    /\ UNCHANGED apiVars

ValidStackEntry(e) == e.name # NoVal /\ e.stack # NoVal

AfterStackEntry(c) ==
    IF loc[c].i = Len(cfg[c].stacks)
    THEN Goto(c, "drop_stacks")
    ELSE Goto(c, "stack_entry")

\* for stack_config in stacks_config: the loop body down to the update or
\* the creation of the Stack row
SyncStack(c) ==
    /\ pc[c] = "stack_entry"
    /\ LET l == loc[c]
           e == cfg[c].stacks[l.i]
       IN  IF ~ValidStackEntry(e)
           THEN /\ loc' = [loc EXCEPT ![c].i = @ + 1]
                /\ AfterStackEntry(c)
                /\ UNCHANGED <<dbVars, sess, raised>>
           ELSE IF HasKey(l.existing_stacks, e.name)
           THEN /\ SetSess(c, SetStackPath(sess[c],
                        DictGet(l.existing_stacks, e.name).id, e.stack))
                /\ loc' = [loc EXCEPT
                        ![c].config_stack_names = @ \cup {e.name},
                        ![c].stack = DictGet(l.existing_stacks, e.name).id]
                /\ Goto(c, "unlink_stack")
                /\ UNCHANGED <<dbVars, raised>>
           ELSE IF ~FlushOk(l.pending_links)
           THEN Raise(c, "IntegrityError") /\ UNCHANGED <<env_seq, stack_seq>>
           ELSE /\ SetSess(c, InsertStack(FlushLinks(sess[c], l.pending_links),
                        stack_seq + 1, Pid(c), e.name, e.stack))
                /\ stack_seq' = stack_seq + 1
                /\ loc' = [loc EXCEPT
                        ![c].config_stack_names = @ \cup {e.name},
                        ![c].stack = stack_seq + 1,
                        ![c].pending_links = <<>>]
                /\ Goto(c, "unlink_stack")
                /\ UNCHANGED <<tabVars, env_seq, raised>>
    /\ UNCHANGED <<msgVars, outcome, jobs>>
    /\ UNCHANGED apiVars

\* delete(StackEnvironment).where(StackEnvironment.stack_id == stack.id)
UnlinkStack(c) ==
    /\ pc[c] = "unlink_stack"
    /\ IF ~FlushOk(loc[c].pending_links)
       THEN Raise(c, "IntegrityError")
       ELSE /\ SetSess(c, DeleteLinksOfStack(
                    FlushLinks(sess[c], loc[c].pending_links), loc[c].stack))
            /\ loc' = [loc EXCEPT ![c].pending_links = <<>>]
            /\ Goto(c, "link_stack")
            /\ UNCHANGED <<tabVars, raised>>
    /\ UNCHANGED <<env_seq, stack_seq, msgVars, outcome, jobs>>
    /\ UNCHANGED apiVars

\* for env_name in stack_envs
LinkStack(c) ==
    /\ pc[c] = "link_stack"
    /\ loc' = [loc EXCEPT
            ![c].pending_links = NewLinks(loc[c].stack,
                cfg[c].stacks[loc[c].i].environments, loc[c].env_name_to_id),
            ![c].i = @ + 1]
    /\ AfterStackEntry(c)
    /\ UNCHANGED <<dbVars, msgVars, sess, endVars, jobs>>
    /\ UNCHANGED apiVars

\* the head of the loop over existing_stacks_map.items()
DropStacks(c) ==
    /\ pc[c] = "drop_stacks"
    /\ LET l    == loc[c]
           todo == Dropped(l.existing_stacks, DictKeys(l.existing_stacks),
                           l.config_stack_names)
       IN  /\ loc' = [loc EXCEPT ![c].todo = todo]
           /\ IF todo = <<>>
              THEN Goto(c, "commit")
              ELSE Goto(c, "drop_stack_links")
    /\ UNCHANGED <<dbVars, msgVars, sess, endVars, jobs>>
    /\ UNCHANGED apiVars

DropStackLinks(c) ==
    /\ pc[c] = "drop_stack_links"
    /\ IF ~FlushOk(loc[c].pending_links)
       THEN Raise(c, "IntegrityError")
       ELSE /\ SetSess(c, DeleteLinksOfStack(
                    FlushLinks(sess[c], loc[c].pending_links),
                    Head(loc[c].todo)))
            /\ loc' = [loc EXCEPT ![c].pending_links = <<>>]
            /\ Goto(c, "drop_stack")
            /\ UNCHANGED <<tabVars, raised>>
    /\ UNCHANGED <<env_seq, stack_seq, msgVars, outcome, jobs>>
    /\ UNCHANGED apiVars

DropStack(c) ==
    /\ pc[c] = "drop_stack"
    /\ SetSess(c, DeleteStack(sess[c], Head(loc[c].todo)))
    /\ loc' = [loc EXCEPT ![c].todo = Tail(@)]
    /\ IF Tail(loc[c].todo) = <<>>
       THEN Goto(c, "commit")
       ELSE Goto(c, "drop_stack_links")
    /\ UNCHANGED <<dbVars, msgVars, endVars, jobs>>
    /\ UNCHANGED apiVars

\* get_session after the block: session.commit(), session.close()
Commit(c) ==
    /\ pc[c] = "commit"
    /\ IF ~FlushOk(loc[c].pending_links)
       THEN Raise(c, "IntegrityError")
       ELSE IF CommitRefused(Committed, loc[c].base,
                    FlushLinks(sess[c], loc[c].pending_links))
       THEN Raise(c, "StaleDataError")
       ELSE /\ SetTables(SessionExit(Committed,
                    Merge(Committed, loc[c].base,
                          FlushLinks(sess[c], loc[c].pending_links)), TRUE))
            /\ SetSess(c, NoTables)
            /\ loc' = [loc EXCEPT ![c] = LocInit]
            /\ Goto(c, "ack")
            /\ UNCHANGED raised
    /\ UNCHANGED <<env_seq, stack_seq, msgVars, outcome, jobs>>
    /\ UNCHANGED apiVars

\* A statement of the transaction fails (the database is unreachable, ...).
InSession ==
    {"clean_links", "clean_stacks", "clean_envs", "load_envs", "flush_envs",
     "drop_env_links", "drop_env", "reload_envs", "load_stacks",
     "stack_entry", "unlink_stack", "drop_stack_links", "drop_stack",
     "commit"}

DbFail(c) ==
    /\ pc[c] \in InSession
    /\ Raise(c, "OperationalError")
    /\ UNCHANGED <<env_seq, stack_seq, msgVars, outcome, jobs>>
    /\ UNCHANGED apiVars

----------------------------------------------------------------------------

\* The steps of callback between the delivery and the settlement, the
\* requests of the fetch and the commit aside.
Work(c) ==
    \/ Parse(c)
    \/ Fetch(c)
    \/ Begin(c)
    \/ CleanLinks(c)
    \/ CleanStacks(c)
    \/ CleanEnvs(c)
    \/ LoadEnvs(c)
    \/ SyncEnv(c)
    \/ FlushEnvs(c)
    \/ DropEnvLinks(c)
    \/ DropEnv(c)
    \/ ReloadEnvs(c)
    \/ LoadStacks(c)
    \/ SyncStack(c)
    \/ UnlinkStack(c)
    \/ LinkStack(c)
    \/ DropStacks(c)
    \/ DropStackLinks(c)
    \/ DropStack(c)
    \/ DbFail(c)
    \/ Ack(c)
    \/ Except(c)
    \/ Redeliver(c)

\* The steps of callback between the delivery and the settlement, the
\* requests of the fetch aside.
Steps(c) ==
    \/ Work(c)
    \/ Commit(c)

Run(c) ==
    \/ Deliver(c)
    \/ Probe(c)
    \/ Steps(c)

\* The consumer of src/consumers/repo-scan.py, one job at a time.
Next == Run("consumers/repo-scan.py")

Spec == Init /\ [][Next]_vars

\* The consumer of src/repo-scan.py, one job at a time.
NextRoot == Run("repo-scan.py")

SpecRoot == Init /\ [][NextRoot]_vars

\* The manifests of a repository with few commits: the first ones, and one
\* that moves the environment dev and the stack VPC.
Rescans ==
    FirstManifests \cup
        {Doc("dict", <<EnvEntry("dev", "d2")>>,
                     <<StackEntry("VPC", "p2", <<"dev">>)>>)}

Rescan(c) == Request(c, Rescans)

\* The consumer of src/consumers/repo-scan.py on these manifests.
NextRescan ==
    \/ Deliver("consumers/repo-scan.py")
    \/ Rescan("consumers/repo-scan.py")
    \/ Steps("consumers/repo-scan.py")

\* On the annotated database.
SpecAnnotated == InitAnnotated /\ [][NextRescan]_vars

\* callback runs in the consumer's one thread, from the delivery to the
\* settlement: a step that can be taken is taken.
SpecFair == Init /\ [][NextRescan]_vars /\ WF_vars(NextRescan)

\* Two consumer processes on one queue and one database, and the scan jobs
\* of one project; every manifest lists every name once.
PairMessages == {m \in Messages : m.ok /\ m.project_id = 1}

PairManifests ==
    {Doc("dict", <<EnvEntry("dev", "d1")>>,
                 <<StackEntry("VPC", "p1", <<"dev">>)>>),
     Doc("dict", <<EnvEntry("stg", "d2")>>, <<>>)}

Handover(c) == Take(c, PairMessages) /\ UNCHANGED apiVars

PairScan(c) == Request(c, PairManifests)

NextPair ==
    \E c \in Consumers :
        \/ Handover(c)
        \/ PairScan(c)
        \/ Steps(c)

SpecPair == Init /\ [][NextPair]_vars

----------------------------------------------------------------------------
(* src/app/api.py and src/app/rabbitmq.py, one step per statement. *)

\* The project_id of the request path: an integer, or text int() refuses.
PathIds ==
    [int : {TRUE}, id : 1..MaxProjects] \cup {[int |-> FALSE, id |-> 0]}

\* The request bodies of POST /api/projects: one validate_project_data
\* refuses, and valid ones without and with a repository_url.
Bodies ==
    {[valid |-> FALSE, repository_url |-> NoVal]}
        \cup [valid : {TRUE}, repository_url : Urls]

SetApi(r) == api' = r

\* session.get(Project, pid)
GetProject(pid) ==
    IF \E p \in projects : p.id = pid
    THEN CHOOSE p \in projects : p.id = pid
    ELSE NoProject

\* message = {"project_id": ..., "project_name": ..., "repository_url": ...}
ScanMessage(project) ==
    [ok |-> TRUE, project_id |-> project.id,
     repository_url |-> project.repository_url]

\* A request arrives at POST /api/projects/{id}/scan.
TriggerRequest ==
    /\ api.pc \in {"idle", "done"}
    /\ api.n < MaxRequests
    /\ \E a \in PathIds :
          SetApi([ApiIdle EXCEPT !.pc = "parse", !.handler = "trigger",
                                 !.arg = a, !.n = api.n + 1])
    /\ UNCHANGED <<projects, project_seq, queue, jobVars>>

\* pid = int(project_id), except ValueError: 400
TriggerParse ==
    /\ api.pc = "parse"
    /\ api.handler = "trigger"
    /\ IF api.arg.int
       THEN SetApi([api EXCEPT !.pc = "get"])
       ELSE SetApi([api EXCEPT !.pc = "done", !.response = 400,
                               !.status = 400])
    /\ UNCHANGED <<projects, project_seq, queue, jobVars>>

\* with get_session() as session: project = session.get(Project, pid)
TriggerGet ==
    /\ api.pc = "get"
    /\ SetApi([api EXCEPT !.pc = "check", !.project = GetProject(api.arg.id)])
    /\ UNCHANGED <<projects, project_seq, queue, jobVars>>

\* A test of the repository URL that every project passes.
AnyUrl(project) == TRUE

\* `if not project.repository_url`
HasUrl(project) == project.repository_url # NoVal

\* `if not project`: 404; `if not project.repository_url`: 400
TriggerCheck ==
    /\ api.pc = "check"
    /\ IF api.project = NoProject
       THEN SetApi([api EXCEPT !.pc = "exit", !.response = 404])
       ELSE IF ~HasUrl(api.project)
       THEN SetApi([api EXCEPT !.pc = "exit", !.response = 400])
       ELSE SetApi([api EXCEPT !.pc = "connect"])
    /\ UNCHANGED <<projects, project_seq, queue, jobVars>>

\* A request arrives at POST /api/projects.
CreateRequest ==
    /\ api.pc \in {"idle", "done"}
    /\ api.n < MaxRequests
    /\ project_seq < MaxProjects
    /\ \E b \in Bodies :
          SetApi([ApiIdle EXCEPT
                    !.pc = "parse", !.handler = "create", !.n = api.n + 1,
                    !.project = [id |-> 0, repository_url |-> b.repository_url],
                    !.response = IF b.valid THEN 0 ELSE 400])
    /\ UNCHANGED <<projects, project_seq, queue, jobVars>>

\* validate_project_data refuses the body: 400; or session.add(project),
\* session.flush(), session.refresh(project)
CreateAdd ==
    /\ api.pc = "parse"
    /\ api.handler = "create"
    /\ IF api.response = 400
       THEN /\ SetApi([api EXCEPT !.pc = "done", !.status = 400])
            /\ UNCHANGED project_seq
       ELSE /\ project_seq' = project_seq + 1
            /\ SetApi([api EXCEPT
                    !.pc = IF HasUrl(api.project) THEN "connect" ELSE "exit",
                    !.project.id = project_seq + 1,
                    !.created = TRUE,
                    !.response = 201])
    /\ UNCHANGED <<projects, queue, jobVars>>

\* send_project_scan_message: a call of it raises, `except Exception`
SendFails(at) ==
    SetApi([api EXCEPT !.pc = "sent", !.failed_at = at])

\* connection = get_rabbitmq_connection(); channel = connection.channel()
Connect ==
    /\ api.pc = "connect"
    /\ \/ SetApi([api EXCEPT !.pc = "declare", !.conn = "open"])
       \/ SendFails("connect")
    /\ UNCHANGED <<projects, project_seq, queue, jobVars>>

\* channel.queue_declare(queue="repo-scan", durable=True)
Declare ==
    /\ api.pc = "declare"
    /\ \/ SetApi([api EXCEPT !.pc = "publish"])
       \/ SendFails("declare")
    /\ UNCHANGED <<projects, project_seq, queue, jobVars>>

\* channel.basic_publish(exchange="", routing_key="repo-scan", ...)
Publish ==
    /\ api.pc = "publish"
    /\ \/ /\ queue' = Append(queue, ScanMessage(api.project))
          /\ SetApi([api EXCEPT !.pc = "close", !.published = @ + 1])
       \/ SendFails("publish") /\ UNCHANGED queue
    /\ UNCHANGED <<projects, project_seq, jobVars>>

\* connection.close()
Close ==
    /\ api.pc = "close"
    /\ \/ SetApi([api EXCEPT !.pc = "sent", !.conn = "closed"])
       \/ SendFails("close")
    /\ UNCHANGED <<projects, project_seq, queue, jobVars>>

\* A send that reports success whatever happened.
SendResultTrue(failed_at) == TRUE

\* return True at the end of the try block, return False in the except
SendResult(failed_at) == failed_at = "none"

\* success = send_project_scan_message(...), and what the handler makes of
\* it: trigger_repo_scan_handler answers 500 or 200, create_project_handler
\* logs a warning and answers 201.
Sent ==
    /\ api.pc = "sent"
    /\ LET success == SendResult(api.failed_at)
       IN  SetApi([api EXCEPT
                !.pc = "exit",
                !.success = success,
                !.response = IF api.handler = "create" THEN 201
                             ELSE IF success THEN 200 ELSE 500])
    /\ UNCHANGED <<projects, project_seq, queue, jobVars>>

\* `return response` leaves the `with get_session()` block: session.commit()
ApiExit ==
    /\ api.pc = "exit"
    /\ projects' = IF api.created
                   THEN projects \cup {api.project}
                   ELSE projects
    /\ SetApi([api EXCEPT !.pc = "done", !.status = api.response])
    /\ UNCHANGED <<project_seq, queue, jobVars>>

\* A statement of the handler's session raises (session.get, session.flush,
\* session.commit): get_session rolls back and the handler's outer
\* `except Exception` answers 500.
ApiDbFail ==
    /\ \/ api.pc \in {"get", "exit"}
       \/ api.pc = "parse" /\ api.handler = "create" /\ api.response # 400
    /\ SetApi([api EXCEPT !.pc = "done", !.status = 500,
                           !.raised = "OperationalError"])
    /\ UNCHANGED <<projects, project_seq, queue, jobVars>>

NextApi ==
    \/ TriggerRequest
    \/ TriggerParse
    \/ TriggerGet
    \/ TriggerCheck
    \/ CreateRequest
    \/ CreateAdd
    \/ Connect
    \/ Declare
    \/ Publish
    \/ Close
    \/ Sent
    \/ ApiExit
    \/ ApiDbFail

SpecApi == Init /\ [][NextApi]_vars

----------------------------------------------------------------------------
(* The web application and the consumer of src/consumers/repo-scan.py on   *)
(* one broker and one database: the scan jobs are the messages the         *)
(* handlers published, in the order of the queue.                          *)

\* The manifests of the repositories registered.
SysManifests ==
    {Doc("dict", <<EnvEntry("dev", "d1")>>,
                 <<StackEntry("VPC", "p1", <<"dev">>)>>),
     Doc("dict", <<EnvEntry("stg", "d2")>>, <<>>)}

\* The broker hands consumer c the message at the head of the queue.
Receive(c) ==
    /\ queue # <<>>
    /\ Take(c, {Head(queue)})
    /\ queue' = Tail(queue)
    /\ UNCHANGED <<projects, project_seq, api>>

SysScan(c) == Request(c, SysManifests)

\* project_id: int = Field(foreign_key="projects.id"): every Environment and
\* Stack row the session of c writes names a committed Project.
ForeignKeyOk(c) ==
    \A r \in (sess[c].envs \ loc[c].base.envs)
                \cup (sess[c].stacks \ loc[c].base.stacks) :
        \E p \in projects : p.id = r.project_id

\* The commit of a session whose rows name committed Projects.
Store(c) == ForeignKeyOk(c) /\ Commit(c)

\* The database refuses a row that names no committed Project: the INSERT
\* raises an IntegrityError, get_session rolls back.  The model raises it
\* where the block ends, the latest point at which the INSERT is sent.
Refuse(c) ==
    /\ pc[c] = "commit"
    /\ ~ForeignKeyOk(c)
    /\ Raise(c, "IntegrityError")
    /\ UNCHANGED <<env_seq, stack_seq, msgVars, outcome, jobs>>
    /\ UNCHANGED apiVars

NextSys ==
    \/ NextApi
    \/ Receive("consumers/repo-scan.py")
    \/ SysScan("consumers/repo-scan.py")
    \/ Work("consumers/repo-scan.py")
    \/ Store("consumers/repo-scan.py")
    \/ Refuse("consumers/repo-scan.py")

SpecSys == Init /\ [][NextSys]_vars

----------------------------------------------------------------------------
(* Vocabulary of the properties. *)

Ids(rows) == {r.id : r \in rows}

\* The tables a job at its commit is about to commit.
PostOf(c) == FlushLinks(sess[c], loc[c].pending_links)

\* The job has run process_colonia_yaml to its end and its commit will not
\* be refused: the committed tables are the ones before the job, PostOf(c)
\* the ones after it.
AtCommit(c) == pc[c] = "commit" /\ FlushOk(loc[c].pending_links)

Synced(c) == AtCommit(c) /\ cfg[c].kind = "dict"

TornDown(c) == AtCommit(c) /\ ~Truthy(cfg[c])

ValidEnvs(doc) ==
    {i \in 1..Len(doc.environments) : ValidEnvEntry(doc.environments[i])}

ValidStacks(doc) ==
    {i \in 1..Len(doc.stacks) : ValidStackEntry(doc.stacks[i])}

ValidEnvNames(doc) == {doc.environments[i].name : i \in ValidEnvs(doc)}

ValidStackNames(doc) == {doc.stacks[i].name : i \in ValidStacks(doc)}

NoProjectRows(v, pid) == ProjEnvs(v, pid) = {} /\ ProjStacks(v, pid) = {}

Bijections(S, T) ==
    {f \in [S -> T] :
        /\ \A x, y \in S : x # y => f[x] # f[y]
        /\ \A t \in T : \E x \in S : f[x] = t}

----------------------------------------------------------------------------
(* C1: teardown completeness.  When process_colonia_yaml(project_id, None) *)
(* reaches its commit, the tables it commits hold no Environment and no    *)
(* Stack row of the project and no StackEnvironment row that references a  *)
(* stack or an environment the project had before; after the commit the    *)
(* committed tables hold no row of the project.                            *)
C1_TeardownComplete ==
    \A c \in Consumers :
        /\ TornDown(c) =>
            /\ NoProjectRows(PostOf(c), Pid(c))
            /\ \A l \in PostOf(c).links :
                /\ l.stack_id \notin Ids(ProjStacks(Committed, Pid(c)))
                /\ l.environment_id \notin Ids(ProjEnvs(Committed, Pid(c)))
        /\ (pc[c] = "ack" /\ ~Truthy(cfg[c])) =>
            NoProjectRows(Committed, Pid(c))

C1_Witness ==
    \E c \in Consumers :
        /\ TornDown(c)
        /\ ProjEnvs(Committed, Pid(c)) # {}
        /\ \E l \in links : l.stack_id \in Ids(ProjStacks(Committed, Pid(c)))

(* C2: idempotence under re-delivery.  When the same message is handled a  *)
(* second time with the same manifest, the tables the second run commits   *)
(* are the tables the first run committed.                                 *)
C2_Idempotent ==
    \A c \in Consumers :
        (redelivered[c] /\ AtCommit(c)) => PostOf(c) = Committed

(* C3 as stated: after a sync of a manifest applied to a project with no   *)
(* rows, the Environment rows are the manifest's environment entries, the  *)
(* Stack rows its stack entries, and each stack has one StackEnvironment   *)
(* row per environment name of its entry's list.                           *)
C3_ConvergesToEntries ==
    \A c \in Consumers :
        (Synced(c) /\ NoProjectRows(Committed, Pid(c))) =>
            LET doc  == cfg[c]
                post == PostOf(c)
            IN  /\ \E f \in Bijections(DOMAIN doc.environments,
                                       ProjEnvs(post, Pid(c))) :
                     \A i \in DOMAIN doc.environments :
                        /\ f[i].name = doc.environments[i].name
                        /\ f[i].directory = doc.environments[i].dir
                /\ \E g \in Bijections(DOMAIN doc.stacks,
                                       ProjStacks(post, Pid(c))) :
                     \A k \in DOMAIN doc.stacks :
                        /\ g[k].name = doc.stacks[k].name
                        /\ g[k].stack_path = doc.stacks[k].stack
                        /\ \A j \in DOMAIN doc.stacks[k].environments :
                             Cardinality({l \in post.links :
                                /\ l.stack_id = g[k].id
                                /\ \E e \in ProjEnvs(post, Pid(c)) :
                                     /\ e.id = l.environment_id
                                     /\ e.name = doc.stacks[k].environments[j]
                                }) = 1

(* C3, amended: after a sync of a manifest applied to a project with no    *)
(* rows, the Environment rows are the manifest's valid environment         *)
(* entries (name, directory = dir), the Stack rows its valid stack entries *)
(* (name, stack_path = stack), and the StackEnvironment rows of each stack *)
(* are one per environment name of its entry's list that names a valid     *)
(* environment entry, and none for any other name.                         *)
C3_ConvergesToValidEntries ==
    \A c \in Consumers :
        (Synced(c) /\ NoProjectRows(Committed, Pid(c))) =>
            LET doc  == cfg[c]
                post == PostOf(c)
                Named(sid, name) ==
                    {l \in post.links :
                        /\ l.stack_id = sid
                        /\ \E e \in ProjEnvs(post, Pid(c)) :
                             e.id = l.environment_id /\ e.name = name}
            IN  /\ \E f \in Bijections(ValidEnvs(doc), ProjEnvs(post, Pid(c))) :
                     \A i \in ValidEnvs(doc) :
                        /\ f[i].name = doc.environments[i].name
                        /\ f[i].directory = doc.environments[i].dir
                /\ \E g \in Bijections(ValidStacks(doc),
                                       ProjStacks(post, Pid(c))) :
                     \A k \in ValidStacks(doc) :
                        /\ g[k].name = doc.stacks[k].name
                        /\ g[k].stack_path = doc.stacks[k].stack
                        /\ \A name \in EnvNames :
                             Cardinality(Named(g[k].id, name)) =
                                IF /\ \E j \in DOMAIN doc.stacks[k].environments :
                                        doc.stacks[k].environments[j] = name
                                   /\ name \in ValidEnvNames(doc)
                                THEN 1 ELSE 0
                        /\ \A l \in post.links :
                             l.stack_id = g[k].id =>
                                l.environment_id \in Ids(ProjEnvs(post, Pid(c)))
                /\ \A l \in post.links :
                     l.environment_id \in Ids(ProjEnvs(post, Pid(c))) =>
                        l.stack_id \in Ids(ProjStacks(post, Pid(c)))

\* The end-to-end scenario: environment dev, stack VPC listing dev, and on
\* the side an environment name the manifest does not declare.
C3_Witness ==
    \E c \in Consumers :
        /\ Synced(c)
        /\ NoProjectRows(Committed, Pid(c))
        /\ envs # {}
        /\ cfg[c].environments = <<EnvEntry("dev", "d1")>>
        /\ cfg[c].stacks = <<StackEntry("VPC", "p1", <<"dev", "stg">>)>>
        /\ Cardinality(ProjEnvs(PostOf(c), Pid(c))) = 1
        /\ Cardinality(ProjStacks(PostOf(c), Pid(c))) = 1
        /\ Cardinality(PostOf(c).links \ links) = 1

(* C4: a fetch that yields no manifest (no repository URL, a URL that is   *)
(* not a GitHub one, no 200 on either branch, a network error, a YAML      *)
(* parse error) hands process_colonia_yaml the same None as an absent      *)
(* manifest: the job takes the teardown statements only, the tables it     *)
(* commits hold no Environment or Stack row of the project and no link,    *)
(* the acknowledgement comes after that commit, and nothing but a failing  *)
(* database statement takes the job to the except clause instead.          *)
NoManifest ==
    {"no_url", "unsupported_url", "not_found", "request_error", "yaml_error"}

C4_NoManifestTearsDown ==
    \A c \in Consumers :
        fetched[c] \in NoManifest =>
            /\ cfg[c] = NoneDoc
            /\ pc[c] \in {"process", "clean_links", "clean_stacks",
                          "clean_envs", "commit", "ack", "except"}
            /\ pc[c] = "commit" =>
                /\ NoProjectRows(sess[c], Pid(c))
                /\ loc[c].pending_links = <<>>
                /\ \A l \in sess[c].links :
                    /\ l.stack_id \notin Ids(ProjStacks(Committed, Pid(c)))
                    /\ l.environment_id \notin Ids(ProjEnvs(Committed, Pid(c)))
            /\ pc[c] = "ack" => NoProjectRows(Committed, Pid(c))
            /\ pc[c] = "except" => raised[c] = "OperationalError"

C4_Witness ==
    \E c \in Consumers :
        /\ fetched[c] = "request_error"
        /\ pc[c] = "commit"
        /\ ProjEnvs(Committed, Pid(c)) # {}
        /\ ProjStacks(Committed, Pid(c)) # {}
        /\ links # {}
        /\ sess[c] = NoTables

(* C5: failure atomicity.  The committed tables change in one kind of step *)
(* only, the commit that ends a job's session, and then to the tables of   *)
(* that session; a step that takes a job to the except clause leaves the   *)
(* committed tables as they were, so that a job that raises leaves them as *)
(* they were before it.                                                    *)
C5_FailureAtomic ==
    [][/\ tabVars' # tabVars =>
            \E c \in Consumers :
                /\ pc[c] = "commit"
                /\ pc'[c] = "ack"
                /\ Tables(envs', stacks', links') = PostOf(c)
       /\ \A c \in Consumers :
            pc'[c] = "except" => UNCHANGED tabVars]_vars

\* A first job that inserted rows and then raised: the sequence has moved,
\* the committed tables are empty as before.
C5_Witness ==
    \E c \in Consumers :
        /\ jobs = 1
        /\ pc[c] = "except"
        /\ raised[c] = "OperationalError"
        /\ env_seq > 0
        /\ stack_seq > 0
        /\ Committed = NoTables

(* C6: every delivery is settled once, with an acknowledgement when the    *)
(* job raised nothing and with a rejection without requeue when it raised. *)
C6_AckOnlyOnSuccess ==
    \A c \in Consumers :
        (pc[c] = "idle" /\ outcome[c] # "none") =>
            /\ outcome[c] = "ack" <=> raised[c] = "none"
            /\ outcome[c] = "nack_no_requeue" <=> raised[c] # "none"

C8_UpdateInPlace ==
    \A c \in Consumers :
        Synced(c) =>
            \A r \in ProjEnvs(Committed, Pid(c)) :
                \A i \in ValidEnvs(cfg[c]) :
                    LET entry == cfg[c].environments[i]
                    IN  (entry.name = r.name /\ entry.dir # r.directory) =>
                            {e \in ProjEnvs(PostOf(c), Pid(c)) : e.name = r.name}
                                = {[r EXCEPT !.directory = entry.dir]}

(* C9: deletion of dropped entries.  The tables a sync commits hold no     *)
(* Environment row of the project whose name is not the name of a valid    *)
(* environment entry and no Stack row whose name is not the name of a      *)
(* valid stack entry, and no StackEnvironment row that references such a   *)
(* row.                                                                    *)
C9_DroppedDeleted ==
    \A c \in Consumers :
        Synced(c) =>
            /\ \A r \in ProjEnvs(Committed, Pid(c)) :
                r.name \notin ValidEnvNames(cfg[c]) =>
                    /\ r.id \notin Ids(PostOf(c).envs)
                    /\ \A l \in PostOf(c).links : l.environment_id # r.id
            /\ \A r \in ProjStacks(Committed, Pid(c)) :
                r.name \notin ValidStackNames(cfg[c]) =>
                    /\ r.id \notin Ids(PostOf(c).stacks)
                    /\ \A l \in PostOf(c).links : l.stack_id # r.id

(* C10: link resolution skip.  When a valid stack entry lists a name that  *)
(* is not the name of a valid environment entry of the manifest, the       *)
(* tables the sync commits hold no StackEnvironment row that pairs a stack *)
(* of that name with an environment of that name.                          *)
C10_UnresolvedSkipped ==
    \A c \in Consumers :
        Synced(c) =>
            \A k \in ValidStacks(cfg[c]) :
                \A j \in DOMAIN cfg[c].stacks[k].environments :
                    LET name == cfg[c].stacks[k].environments[j]
                    IN  name \notin ValidEnvNames(cfg[c]) =>
                            ~ \E l \in PostOf(c).links :
                                /\ \E s \in ProjStacks(PostOf(c), Pid(c)) :
                                    /\ s.id = l.stack_id
                                    /\ s.name = cfg[c].stacks[k].name
                                /\ \E e \in ProjEnvs(PostOf(c), Pid(c)) :
                                    /\ e.id = l.environment_id
                                    /\ e.name = name

(* C11: re-scan with removal.  When the project has one Environment row,  *)
(* one Stack row and one StackEnvironment row linking them, and the sync   *)
(* is of a manifest with an empty environments list and an empty stacks    *)
(* list, the tables it commits hold no Environment and no Stack row of the *)
(* project and no StackEnvironment row of either.                          *)
OneOfEach(v, pid) ==
    /\ Cardinality(ProjEnvs(v, pid)) = 1
    /\ Cardinality(ProjStacks(v, pid)) = 1
    /\ {l \in v.links : l.stack_id \in Ids(ProjStacks(v, pid))}
         = {StackEnvironment(s.id, e.id) :
                s \in ProjStacks(v, pid), e \in ProjEnvs(v, pid)}

C11_RescanRemoves ==
    \A c \in Consumers :
        (/\ Synced(c)
         /\ cfg[c].environments = <<>>
         /\ cfg[c].stacks = <<>>
         /\ OneOfEach(Committed, Pid(c))) =>
            /\ NoProjectRows(PostOf(c), Pid(c))
            /\ \A l \in PostOf(c).links :
                /\ l.stack_id \notin Ids(ProjStacks(Committed, Pid(c)))
                /\ l.environment_id \notin Ids(ProjEnvs(Committed, Pid(c)))

C11_Witness ==
    \E c \in Consumers :
        /\ Synced(c)
        /\ cfg[c].environments = <<>>
        /\ cfg[c].stacks = <<>>
        /\ OneOfEach(Committed, Pid(c))
        /\ PostOf(c) = NoTables

(* C12: no dangling links.  In every committed state every                 *)
(* StackEnvironment row references a Stack row and an Environment row that *)
(* exist and belong to one project.                                        *)
NoDangling(v) ==
    \A l \in v.links :
        \E s \in v.stacks, e \in v.envs :
            /\ s.id = l.stack_id
            /\ e.id = l.environment_id
            /\ s.project_id = e.project_id

C12_NoDanglingLinks == NoDangling(Committed)

\* Environment 1 was committed with environment 2 and a stack linked to
\* both, and a later sync dropped it: the link to environment 2 is there.
C12_Witness ==
    /\ StackEnvironment(1, 2) \in links
    /\ 1 \notin Ids(envs)
    /\ 2 \in Ids(envs)
    /\ \E c \in Consumers : pc[c] = "ack"

(* C13: name uniqueness.  In every committed state no project has two      *)
(* Environment rows of one name and no project has two Stack rows of one   *)
(* name.                                                                   *)
C13_UniqueNames ==
    /\ \A a, b \in envs :
        (a.project_id = b.project_id /\ a.name = b.name) => a = b
    /\ \A a, b \in stacks :
        (a.project_id = b.project_id /\ a.name = b.name) => a = b

(* C14: the fetch boundary never raises.  Every step of fetch_colonia_yaml *)
(* goes on to the next probe or returns to callback with a parsed document *)
(* or None, whatever the probes yield, and raises nothing; with an empty   *)
(* repository_url it returns None at once, no request made.                *)
C14_FetchNeverRaises ==
    [][\A c \in Consumers :
        pc[c] \in {"fetch", "probe"} =>
            /\ pc'[c] \in {"probe", "process"}
            /\ raised'[c] = "none"
            /\ pc'[c] = "process" =>
                /\ cfg'[c] \in Fetchable(jobs) \cup {NoneDoc}
                /\ fetched'[c] # "parsed" => cfg'[c] = NoneDoc
            /\ (pc[c] = "fetch" /\ msg[c].repository_url = NoVal) =>
                /\ pc'[c] = "process"
                /\ cfg'[c] = NoneDoc
                /\ probes'[c] = <<>>]_vars

\* The second probe ended in a network error, and in a body that is not
\* YAML.
C14_Witness ==
    \E c \in Consumers :
        /\ pc[c] = "process"
        /\ fetched[c] \in {"request_error", "yaml_error"}
        /\ probes[c] = Branches
        /\ raised[c] = "none"

(* C15: isolation between projects.  No step of process_colonia_yaml for   *)
(* project P, and neither its commit nor its rollback, changes a row of    *)
(* projects, or an Environment row, a Stack row or a StackEnvironment row  *)
(* of a stack of another project: inside the session and in the committed *)
(* tables these rows stay what they were.                                  *)
OtherRows(v, pid) ==
    Tables({e \in v.envs : e.project_id # pid},
           {s \in v.stacks : s.project_id # pid},
           {l \in v.links :
                \E s \in v.stacks : s.id = l.stack_id /\ s.project_id # pid})

InCall ==
    InSession \cup {"env_entry", "link_stack", "drop_stacks"}

C15_ProjectsIsolated ==
    [][\A c \in Consumers :
        pc[c] \in InCall =>
            /\ UNCHANGED projects
            /\ OtherRows(Tables(envs', stacks', links'), Pid(c))
                 = OtherRows(Committed, Pid(c))
            /\ OtherRows(sess[c], Pid(c)) = OtherRows(Committed, Pid(c))
            /\ pc[c] = "commit" =>
                OtherRows(PostOf(c), Pid(c)) = OtherRows(Committed, Pid(c))]_vars

C15_Witness ==
    \E c \in Consumers :
        /\ AtCommit(c)
        /\ OtherRows(Committed, Pid(c)).envs # {}
        /\ OtherRows(Committed, Pid(c)).links # {}
        /\ ProjEnvs(PostOf(c), Pid(c)) # {}
        /\ PostOf(c).links # links

(* C16: the scan trigger endpoint.  A finished request to                  *)
(* trigger_repo_scan_handler has answered 200 only when the project exists *)
(* with a repository_url and send_project_scan_message returned True, and  *)
(* then it has published one message, the job of that project; it answers  *)
(* 200 in every such case in which its session raised nothing; it has      *)
(* answered 404 only for an integer id without a project and 400 only for  *)
(* an id that is no integer or a project without repository_url, with      *)
(* nothing published in both cases, and answers so in every such case in   *)
(* which its session raised nothing; no step of it is a step of the        *)
(* consumer, whose tables stay as they were.                               *)
Requested == GetProject(api.arg.id)

Triggerable ==
    /\ api.arg.int
    /\ Requested # NoProject
    /\ Requested.repository_url # NoVal

C16_TriggerEndpoint ==
    (api.handler = "trigger" /\ api.pc = "done") =>
        /\ api.status \in {200, 400, 404, 500}
        /\ api.published \in {0, 1}
        /\ api.status = 200 =>
            /\ Triggerable
            /\ api.success
            /\ api.published = 1
            /\ queue # <<>>
            /\ queue[Len(queue)] = ScanMessage(Requested)
        /\ (Triggerable /\ api.success /\ api.raised = "none") =>
            api.status = 200
        /\ api.status = 404 =>
            api.arg.int /\ Requested = NoProject /\ api.published = 0
        /\ (api.arg.int /\ Requested = NoProject /\ api.raised = "none") =>
            api.status = 404
        /\ api.status = 400 =>
            /\ ~api.arg.int \/ (Requested # NoProject
                                /\ Requested.repository_url = NoVal)
            /\ api.published = 0
        /\ (Requested # NoProject /\ Requested.repository_url = NoVal
              /\ api.raised = "none") =>
            api.status = 400
        /\ ~api.arg.int => api.status = 400
        /\ Committed = NoTables
        /\ \A c \in Consumers : pc[c] = "idle" /\ sess[c] = NoTables

\* The project was created, which published its first scan job, and the
\* trigger has published the second.
C16_Witness ==
    /\ api.handler = "trigger"
    /\ api.pc = "done"
    /\ api.status = 200
    /\ Len(queue) = 2
    /\ queue[1] = queue[2]

(* C17: publishing a scan job never raises to its caller.  Whatever call   *)
(* of send_project_scan_message fails, the handler goes on with its        *)
(* return value; that value is True only when one message was published    *)
(* and the connection closed, and False with nothing published when        *)
(* connecting, declaring the queue or publishing failed; on False          *)
(* trigger_repo_scan_handler has built the response 500, and answers it.   *)
SendDone ==
    /\ api.pc \in {"exit", "done"}
    /\ api.conn # "none" \/ api.failed_at # "none"

C17_SendNeverRaises ==
    /\ api.pc \in {"connect", "declare", "publish", "close", "sent"} =>
        api.raised = "none"
    /\ SendDone =>
        /\ api.success =>
            /\ api.published = 1
            /\ api.conn = "closed"
            /\ api.failed_at = "none"
        /\ api.failed_at \in {"connect", "declare", "publish"} =>
            ~api.success /\ api.published = 0
        /\ (api.handler = "trigger" /\ ~api.success) =>
            /\ api.response = 500
            /\ api.pc = "done" => api.status = 500

C17_Witness ==
    /\ api.handler = "trigger"
    /\ api.pc = "done"
    /\ api.failed_at = "publish"
    /\ api.conn = "open"
    /\ api.status = 500
    /\ api.raised = "none"
    /\ queue = <<>>

(* C18: ordering inside one sync.  The environment name-to-id mapping is   *)
(* written by one step only, the reload that follows the last environment  *)
(* create, update and delete of the call, and from the environments the    *)
(* session then holds; the steps before it touch no Stack row and add no   *)
(* link (they only delete the links of dropped environments), the steps    *)
(* after it change no Environment row, and every id of the mapping is the  *)
(* id of an Environment row the session still holds, to the commit.        *)
EnvPhase ==
    {"load_envs", "env_entry", "flush_envs", "drop_env_links", "drop_env",
     "reload_envs"}

StackPhase ==
    {"load_stacks", "stack_entry", "unlink_stack", "link_stack",
     "drop_stacks", "drop_stack_links", "drop_stack", "commit"}

C18_EnvsBeforeStacks ==
    [][\A c \in Consumers :
        /\ loc'[c].env_name_to_id # loc[c].env_name_to_id =>
            \/ /\ pc[c] = "reload_envs"
               /\ pc'[c] = "load_stacks"
               /\ \E order \in LoadOrders(ProjEnvs(sess[c], Pid(c))) :
                    loc'[c].env_name_to_id = NameToId(order)
            \/ /\ pc'[c] \in {"ack", "except"}
               /\ loc'[c] = LocInit
        /\ (pc[c] \in EnvPhase /\ pc'[c] # "except") =>
            /\ sess'[c].stacks = sess[c].stacks
            /\ sess'[c].links \subseteq sess[c].links
            /\ loc'[c].pending_links = <<>>
            /\ pc'[c] \in EnvPhase \cup {"load_stacks"}
        /\ pc[c] \in StackPhase =>
            /\ pc'[c] \in StackPhase \cup {"ack", "except"}
            /\ pc'[c] \in StackPhase => sess'[c].envs = sess[c].envs
            /\ \A m \in loc[c].env_name_to_id :
                 m.id \in Ids(ProjEnvs(PostOf(c), Pid(c)))]_vars

\* In the stack phase of a sync that has deleted an environment the
\* project had and created one it had not.
C18_Witness ==
    \E c \in Consumers :
        /\ pc[c] = "link_stack"
        /\ \E e \in ProjEnvs(Committed, Pid(c)) : e.id \notin Ids(sess[c].envs)
        /\ \E e \in ProjEnvs(sess[c], Pid(c)) : e.id \notin Ids(envs)
        /\ loc[c].env_name_to_id # {}

(* C19: dependency-ordered deletion.  In every state inside a reconcile    *)
(* call every StackEnvironment row the session holds references a Stack    *)
(* row and an Environment row the session holds, and so do the rows about  *)
(* to be committed; in a teardown the stacks are deleted when no link of   *)
(* them is left and the environments when no stack of the project is left. *)
C19_LinksDeletedFirst ==
    \A c \in Consumers :
        /\ NoDangling(sess[c])
        /\ pc[c] = "commit" => NoDangling(PostOf(c))
        /\ pc[c] = "clean_stacks" =>
            \A l \in sess[c].links :
                l.stack_id \notin Ids(ProjStacks(sess[c], Pid(c)))
        /\ pc[c] = "clean_envs" =>
            /\ ProjStacks(sess[c], Pid(c)) = {}
            /\ \A l \in sess[c].links :
                l.environment_id \notin Ids(ProjEnvs(sess[c], Pid(c)))

\* About to delete a stack that had a link when the call began.
C19_Witness ==
    \E c \in Consumers :
        /\ pc[c] = "drop_stack"
        /\ \E l \in links : l.stack_id = Head(loc[c].todo)
        /\ \E s \in sess[c].stacks : s.id = Head(loc[c].todo)

(* C20: link replacement.  A sync that has reached its commit commits, and *)
(* for every valid stack entry of its manifest the committed tables hold a *)
(* Stack row of the entry's name whose StackEnvironment rows are the       *)
(* environments of the entry's list that resolve through the name-to-id    *)
(* mapping, whatever the list, one that names an environment twice         *)
(* included.                                                               *)
Resolved(c, names) ==
    {MapGet(loc[c].env_name_to_id, names[j]) :
        j \in {i \in DOMAIN names : InMap(loc[c].env_name_to_id, names[i])}}

C20_LinksReplaced ==
    \A c \in Consumers :
        (pc[c] = "commit" /\ cfg[c].kind = "dict") =>
            /\ FlushOk(loc[c].pending_links)
            /\ \A k \in ValidStacks(cfg[c]) :
                \E s \in ProjStacks(PostOf(c), Pid(c)) :
                    /\ s.name = cfg[c].stacks[k].name
                    /\ {l.environment_id :
                            l \in {x \in PostOf(c).links : x.stack_id = s.id}}
                         = Resolved(c, cfg[c].stacks[k].environments)

(* C21: invalid entries contribute nothing.  The pass of the loop over an   *)
(* environment entry without name or dir, or over a stack entry without    *)
(* name or stack path, raises nothing and changes nothing but the loop's    *)
(* position: no row, no pending object, no name of the sets the deletions   *)
(* are decided by; these sets end as the names of the other entries, so    *)
(* that the sync commits what it commits for the manifest without the      *)
(* entry, and a project whose rows had one row per name ends with the      *)
(* names of the other entries and no other name.                           *)
KeptEnvNames(doc) ==
    {doc.environments[i].name :
        i \in {j \in DOMAIN doc.environments :
                /\ doc.environments[j].name # NoVal
                /\ doc.environments[j].dir # NoVal}}

KeptStackNames(doc) ==
    {doc.stacks[i].name :
        i \in {j \in DOMAIN doc.stacks :
                /\ doc.stacks[j].name # NoVal
                /\ doc.stacks[j].stack # NoVal}}

OnePerName(rows) == \A a, b \in rows : a.name = b.name => a = b

C21_InvalidContributeNothing ==
    [][\A c \in Consumers :
        /\ (/\ pc[c] = "env_entry"
            /\ \/ cfg[c].environments[loc[c].i].name = NoVal
               \/ cfg[c].environments[loc[c].i].dir = NoVal) =>
            /\ pc'[c] \in {"env_entry", "flush_envs"}
            /\ raised'[c] = "none"
            /\ sess'[c] = sess[c]
            /\ loc'[c] = [loc[c] EXCEPT !.i = @ + 1]
            /\ UNCHANGED dbVars
        /\ (/\ pc[c] = "stack_entry"
            /\ \/ cfg[c].stacks[loc[c].i].name = NoVal
               \/ cfg[c].stacks[loc[c].i].stack = NoVal) =>
            \/ pc'[c] = "except" /\ raised'[c] = "OperationalError"
            \/ /\ pc'[c] \in {"stack_entry", "drop_stacks"}
               /\ raised'[c] = "none"
               /\ sess'[c] = sess[c]
               /\ loc'[c] = [loc[c] EXCEPT !.i = @ + 1]
               /\ UNCHANGED dbVars
        /\ pc[c] = "flush_envs" =>
            /\ loc[c].config_env_names = KeptEnvNames(cfg[c])
            /\ \A k \in DOMAIN loc[c].pending_envs :
                 loc[c].pending_envs[k].name \in KeptEnvNames(cfg[c])
        /\ pc[c] = "drop_stacks" =>
            loc[c].config_stack_names = KeptStackNames(cfg[c])
        /\ (pc[c] = "commit" /\ pc'[c] = "ack" /\ cfg[c].kind = "dict") =>
            /\ OnePerName(ProjEnvs(Committed, Pid(c))) =>
                {e.name : e \in ProjEnvs(Tables(envs', stacks', links'), Pid(c))}
                    = KeptEnvNames(cfg[c])
            /\ OnePerName(ProjStacks(Committed, Pid(c))) =>
                {x.name : x \in ProjStacks(Tables(envs', stacks', links'), Pid(c))}
                    = KeptStackNames(cfg[c])]_vars

\* The project has an environment dev and a stack VPC; the manifest names
\* both in entries without dir and without stack path: both rows go.
C21_Witness ==
    \E c \in Consumers :
        /\ Synced(c)
        /\ \E i \in DOMAIN cfg[c].environments :
             cfg[c].environments[i] = [name |-> "dev", dir |-> NoVal]
        /\ \E k \in DOMAIN cfg[c].stacks :
             cfg[c].stacks[k].name = "VPC" /\ cfg[c].stacks[k].stack = NoVal
        /\ \E e \in ProjEnvs(Committed, Pid(c)) : e.name = "dev"
        /\ \E x \in ProjStacks(Committed, Pid(c)) : x.name = "VPC"
        /\ \A e \in ProjEnvs(PostOf(c), Pid(c)) : e.name # "dev"
        /\ ProjStacks(PostOf(c), Pid(c)) = {}

(* C22: first match is authoritative.  When the rows loaded for the        *)
(* project hold several rows of one name, the row the sync matches to the  *)
(* manifest's entry of that name (the Environment it updates, the Stack it *)
(* updates and relinks) and the row it deletes when the name is dropped is *)
(* the first of them in load order.                                        *)
FirstMatch(rows, name) ==
    rows[CHOOSE i \in 1..Len(rows) :
            /\ rows[i].name = name
            /\ \A j \in 1..(i - 1) : rows[j].name # name]

IsFirstMatch(rows, id) ==
    \E i \in 1..Len(rows) : rows[i].id = id /\ FirstMatch(rows, rows[i].name) = rows[i]

C22_FirstMatchAuthoritative ==
    \A c \in Consumers :
        /\ pc[c] = "flush_envs" =>
            \A e \in sess[c].envs \ loc[c].base.envs :
                IsFirstMatch(loc[c].existing_envs, e.id)
        /\ pc[c] \in {"drop_env_links", "drop_env"} =>
            IsFirstMatch(loc[c].existing_envs, Head(loc[c].todo))
        /\ (/\ pc[c] = "unlink_stack"
            /\ HasKey(loc[c].existing_stacks, cfg[c].stacks[loc[c].i].name)) =>
            IsFirstMatch(loc[c].existing_stacks, loc[c].stack)
        /\ pc[c] \in {"drop_stack_links", "drop_stack"} =>
            IsFirstMatch(loc[c].existing_stacks, Head(loc[c].todo))

(* C23: branch probing order.  For a GitHub URL the first request is for   *)
(* the main branch and the second, if any, for master; the fetch ends with *)
(* the first request that is answered 200 (with the parsed body, or None   *)
(* when the body is no YAML) or that fails in the network (None); master   *)
(* is requested when the request for main was answered with another        *)
(* status, and in no other case; after master the fetch ends.              *)
Ended == {"parsed", "yaml_error", "request_error"}

C23_BranchProbing ==
    [][\A c \in Consumers :
        /\ pc[c] = "fetch" =>
            /\ probes[c] = <<>>
            /\ probes'[c] = <<>>
            /\ pc'[c] = "probe" <=> IsGitHubUrl(msg[c].repository_url)
        /\ pc[c] = "probe" =>
            /\ fetched[c] = "none"
            /\ probes[c] \in {<<>>, <<"main">>}
            /\ probes'[c] =
                 Append(probes[c], IF probes[c] = <<>> THEN "main" ELSE "master")
            /\ pc'[c] \in {"probe", "process"}
            /\ pc'[c] = "probe" =>
                /\ probes[c] = <<>>
                /\ fetched'[c] = "none"
                /\ cfg'[c] = cfg[c]
            /\ pc'[c] = "process" =>
                /\ fetched'[c] \in Ended \cup {"not_found"}
                /\ fetched'[c] = "not_found" => probes'[c] = <<"main", "master">>
                /\ fetched'[c] # "parsed" => cfg'[c] = NoneDoc
        /\ probes'[c] = <<"main", "master">> =>
            \/ probes[c] = <<"main", "master">>
            \/ probes[c] = <<"main">> /\ pc[c] = "probe" /\ fetched[c] = "none"]_vars

\* The request for main failed in the network, or was answered 200 with a
\* body that is no YAML: the fetch has ended and master was not requested.
C23_Witness ==
    \E c \in Consumers :
        /\ pc[c] = "process"
        /\ fetched[c] \in {"request_error", "yaml_error"}
        /\ probes[c] = <<"main">>
        /\ cfg[c] = NoneDoc

(* C24: the sync writes only the synchronized fields.  No step of a        *)
(* reconcile call, its commit included, changes a field of an Environment  *)
(* row other than directory or a field of a Stack row other than           *)
(* stack_path: a row that is there before and after the step has the id,   *)
(* project_id, name and backend_storage_id, or stack_id and depends_on, it *)
(* had; and a Stack row the call creates has stack_id and depends_on       *)
(* unset.                                                                  *)
SameButDirectory(before, after) ==
    \A r \in before, q \in after :
        q.id = r.id => q = [r EXCEPT !.directory = q.directory]

SameButStackPath(before, after) ==
    \A r \in before, q \in after :
        q.id = r.id => q = [r EXCEPT !.stack_path = q.stack_path]

C24_OnlySyncedFields ==
    [][\A c \in Consumers :
        pc[c] \in InCall =>
            /\ SameButDirectory(sess[c].envs, sess'[c].envs)
            /\ SameButStackPath(sess[c].stacks, sess'[c].stacks)
            /\ SameButDirectory(envs, envs')
            /\ SameButStackPath(stacks, stacks')
            /\ \A q \in sess'[c].stacks :
                 q.id \notin Ids(sess[c].stacks) =>
                    q.stack_id = NoVal /\ q.depends_on = NoVal
            /\ \A q \in sess'[c].envs :
                 q.id \notin Ids(sess[c].envs) => q.backend_storage_id = 0]_vars

\* The annotated rows have been synced to another directory and another
\* stack path and committed, after a stack the sync created.
C24_Witness ==
    /\ \E e \in envs :
         e.id = 1 /\ e.backend_storage_id = 1 /\ e.directory = "d2"
    /\ \E x \in stacks :
         x.id = 1 /\ x.stack_id = "vpc" /\ x.depends_on = "other-stack"
            /\ x.stack_path = "p2"
    /\ \E x \in stacks : x.id # 1 /\ x.stack_id = NoVal
    /\ \E c \in Consumers : pc[c] = "ack"

(* C25: one job at a time.  A consumer is handed a message only while it   *)
(* holds none; the message it holds changes only when it is settled; every *)
(* session, every local of the reconciliation and every change of the      *)
(* committed tables belongs to the one delivery the consumer holds, and is *)
(* over when the delivery is settled, before the next one is handed over.  *)
C25_OneJobAtATime ==
    [][\A c \in Consumers :
        /\ pc[c] = "idle" =>
            /\ sess[c] = NoTables
            /\ loc[c] = LocInit
            /\ pc'[c] # "idle" =>
                /\ pc'[c] = "parse"
                /\ jobs' = jobs + 1
                /\ sess'[c] = NoTables
                /\ UNCHANGED dbVars
        /\ pc[c] # "idle" =>
            /\ msg'[c] = msg[c] \/ (pc'[c] = "idle" /\ msg'[c] = NoMsg)
            /\ pc'[c] = "parse" => pc[c] = "parse"
        /\ jobs' # jobs => \E d \in Consumers : pc[d] = "idle" /\ pc'[d] = "parse"
        /\ dbVars' # dbVars => \E d \in Consumers : pc[d] \in InCall]_vars

\* The second job of a project is in its diff phase; the first one has
\* committed and is settled.
C25_Witness ==
    \E c \in Consumers :
        /\ jobs = 2
        /\ pc[c] = "env_entry"
        /\ \E e \in envs : e.project_id = Pid(c)
        /\ sess[c] # Committed

(* C26: no mutual exclusion across processes.  With two consumers on the   *)
(* jobs of one project, a session reads the committed rows whatever the    *)
(* other consumer is doing, and never a row the other has not committed;   *)
(* its commit writes its own rows beside the rows committed since it       *)
(* began.  So, with manifests that list every name once, a commit leaves   *)
(* two rows of one name in the project when the other consumer committed a *)
(* row of that name after this session began, and only then.               *)
Inserted(c) ==
    Tables(PostOf(c).envs \ loc[c].base.envs,
           PostOf(c).stacks \ loc[c].base.stacks,
           PostOf(c).links \ loc[c].base.links)

Since(c) ==
    Tables(envs \ loc[c].base.envs, stacks \ loc[c].base.stacks,
           links \ loc[c].base.links)

Merged(c) == Merge(Committed, loc[c].base, PostOf(c))

Overlap(mine, theirs) ==
    \E w \in mine, r \in theirs :
        w.id # r.id /\ w.name = r.name /\ w.project_id = r.project_id

C26_NoMutualExclusion ==
    \A c \in Consumers :
        /\ \A d \in Consumers \ {c} :
            /\ \A k \in DOMAIN loc[c].existing_envs :
                 loc[c].existing_envs[k] \in loc[c].base.envs
            /\ \A k \in DOMAIN loc[c].existing_stacks :
                 loc[c].existing_stacks[k] \in loc[c].base.stacks
            /\ Ids(Inserted(d).envs) \cap Ids(loc[c].base.envs) = {}
            /\ Ids(Inserted(d).stacks) \cap Ids(loc[c].base.stacks) = {}
        /\ (AtCommit(c) /\ OnePerName(ProjEnvs(Committed, Pid(c)))) =>
            (OnePerName(ProjEnvs(Merged(c), Pid(c)))
                <=> ~Overlap(Inserted(c).envs, Since(c).envs))
        /\ (AtCommit(c) /\ OnePerName(ProjStacks(Committed, Pid(c)))) =>
            (OnePerName(ProjStacks(Merged(c), Pid(c)))
                <=> ~Overlap(Inserted(c).stacks, Since(c).stacks))

\* Both consumers have committed the manifest with dev and VPC: the project
\* has two environments dev and two stacks VPC.
C26_Witness ==
    /\ \E a, b \in envs :
         a.id # b.id /\ a.name = b.name /\ a.project_id = b.project_id
    /\ \E a, b \in stacks :
         a.id # b.id /\ a.name = b.name /\ a.project_id = b.project_id
    /\ \A c \in Consumers : outcome[c] = "ack" /\ ~redelivered[c]

C28_EmptyManifestTearsDown ==
    \A c \in Consumers :
        (Synced(c) /\ cfg[c].environments = <<>> /\ cfg[c].stacks = <<>>) =>
            /\ ProjEnvs(PostOf(c), Pid(c)) = {}
            /\ ProjStacks(PostOf(c), Pid(c)) = {}
            /\ \A l \in PostOf(c).links :
                /\ l.stack_id \notin Ids(ProjStacks(loc[c].base, Pid(c)))
                /\ l.environment_id \notin Ids(ProjEnvs(loc[c].base, Pid(c)))

(* C29: a scan job is visible after its project.  When the consumer starts *)
(* on a scan job of project p, the Project row p is committed, whether the *)
(* job was published by the creation of the project or by the scan         *)
(* trigger, and every Environment and Stack row names a committed Project. *)
C29_JobAfterProject ==
    /\ \A c \in Consumers :
        (pc[c] = "parse" /\ msg[c].ok) =>
            \E p \in projects : p.id = Pid(c)
    /\ \A r \in envs \cup stacks :
        \E p \in projects : p.id = r.project_id

(* C30: a failed scan is dropped for good and leaves the state stale.  The  *)
(* failure of a job of src/consumers/repo-scan.py changes no committed     *)
(* row; the job is rejected without requeue and leaves the consumer and    *)
(* the queue; a message enters the queue only when a handler of the web    *)
(* application publishes one; and the committed rows change only when a    *)
(* job commits and goes on to its acknowledgement.                         *)
C30_FailedScanDropped ==
    [][LET c == "consumers/repo-scan.py"
       IN  /\ (pc[c] # "except" /\ pc'[c] = "except") =>
                   <<envs, stacks, links>>' = <<envs, stacks, links>>
           /\ (pc[c] = "except" /\ pc'[c] # "except") =>
                   /\ pc'[c] = "idle"
                   /\ outcome'[c] = "nack_no_requeue"
                   /\ msg'[c] = NoMsg
                   /\ queue' = queue
                   /\ <<envs, stacks, links>>' = <<envs, stacks, links>>
           /\ Len(queue') > Len(queue) => api.pc = "publish"
           /\ <<envs, stacks, links>>' # <<envs, stacks, links>> =>
                   pc[c] = "commit" /\ pc'[c] = "ack"]_vars

\* The second job of a project failed in its transaction and was dropped:
\* the rows of the first job are still the committed ones, and the queue is
\* empty.
C30_Witness ==
    LET c == "consumers/repo-scan.py"
    IN  /\ jobs = 2
        /\ pc[c] = "idle"
        /\ outcome[c] = "nack_no_requeue"
        /\ raised[c] \in {"OperationalError", "IntegrityError"}
        /\ queue = <<>>
        /\ \E p \in projects : ProjStacks(Committed, p.id) # {}

====
